---- MODULE Spec2Model ----
(***************************************************************************)
(* Model of scripts/collect_tailscale_logs.py: the TailscaleLogCollector   *)
(* pipeline (status source, log source, normalizer, appender) run by one   *)
(* or more invocations of main() against one shared target file.           *)
(*                                                                         *)
(* JSON text is a sequence of tokens; json.loads and json.dump convert     *)
(* between token sequences and values.  The target file is a sequence of   *)
(* chunks, a chunk being one fp.write() made by json.dump or save_logs.    *)
(***************************************************************************)
EXTENDS Integers, Sequences, FiniteSets, TLC

VARIABLES
    pc,           \* position of each invocation inside main()/collect()/save_logs()
    env,          \* what the two external commands do for this invocation
    got,          \* which path get_tailscale_status took
    status,       \* collect(): status
    journalOut,   \* stdout of the journalctl run inside get_system_logs
    system_logs,  \* collect(): system_logs
    formatted,    \* collect(): formatted_logs
    todo,         \* save_logs(): chunks json.dump has still to write
    pending,      \* save_logs(): chunks held in the text layer of f
    called,       \* names of the collector methods collect() has invoked
    saveResult,   \* outcome of save_logs
    exc,          \* exception that left main() unhandled ("" if none)
    exitCode,     \* process exit status (-1 while running)
    diag,         \* lines printed to standard output
    fileAtStart,  \* content of the target file when the invocation started
    file,         \* content of tailscale.log
    owner,        \* for each chunk of file, the invocation that wrote it
    fileExists,   \* tailscale.log exists
    dirExists     \* output_dir exists

vars == <<pc, env, got, status, journalOut, system_logs, formatted, todo,
          pending, called, saveResult, exc, exitCode, diag, fileAtStart,
          file, owner, fileExists, dirExists>>

----------------------------------------------------------------------------
(* Bounds *)

Procs == {"p1", "p2"}
MaxLines == 4      \* lines of journalctl output, pure-function runs
SeqLines == 2      \* lines of journalctl output, multi-invocation runs

(* Text-layer chunk size of the file object returned by open(..., 'a'),    *)
(* counted in fp.write() chunks (8192 bytes in CPython, scaled down).      *)
ChunkSize == 3

----------------------------------------------------------------------------
(* JSON values and texts *)

None == [kind |-> "null", body |-> <<>>]

Scalars == {"null", "true", "false", "0", "1"}
Structural == {"{", "}", "[", "]", "\""}

Interior(t) == SubSeq(t, 2, Len(t) - 1)
Plain(s) == \A i \in 1..Len(s) : s[i] \notin Structural

Bracketed(t, open, close) ==
    /\ Len(t) >= 2
    /\ t[1] = open
    /\ t[Len(t)] = close
    /\ Plain(Interior(t))

JsonValid(t) ==
    \/ Len(t) = 1 /\ t[1] \in Scalars
    \/ Bracketed(t, "\"", "\"")
    \/ Bracketed(t, "[", "]")
    \/ Bracketed(t, "{", "}") /\ (Len(t) - 2) % 2 = 0

JsonLoads(t) ==
    IF ~JsonValid(t) THEN [exc |-> "JSONDecodeError", val |-> None]
    ELSE [exc |-> "",
          val |-> IF Len(t) = 1
                  THEN (IF t[1] = "null" THEN None
                        ELSE IF t[1] \in {"true", "false"}
                             THEN [kind |-> "bool", body |-> t]
                             ELSE [kind |-> "num", body |-> t])
                  ELSE IF t[1] = "\"" THEN [kind |-> "str", body |-> Interior(t)]
                  ELSE IF t[1] = "[" THEN [kind |-> "arr", body |-> Interior(t)]
                  ELSE [kind |-> "obj", body |-> Interior(t)]]

JsonDumps(v) ==
    IF v.kind = "null" THEN <<"null">>
    ELSE IF v.kind \in {"bool", "num"} THEN v.body
    ELSE IF v.kind = "str" THEN <<"\"">> \o v.body \o <<"\"">>
    ELSE IF v.kind = "arr" THEN <<"[">> \o v.body \o <<"]">>
    ELSE <<"{">> \o v.body \o <<"}">>

(* Python truth value of a decoded JSON value *)
TruthyNotNone(v) == v # None

Truthy(v) ==
    IF v.kind = "null" THEN FALSE
    ELSE IF v.kind = "bool" THEN v.body = <<"true">>
    ELSE IF v.kind = "num" THEN v.body # <<"0">>
    ELSE v.body # <<>>

Max(S) == CHOOSE x \in S : \A y \in S : y <= x

(* dict.get(key, default) *)
DictGet(d, key, default) ==
    LET ks == {i \in 1..Len(d.body) : i % 2 = 1 /\ d.body[i] = key}
    IN IF ks = {} THEN default ELSE d.body[Max(ks) + 1]

----------------------------------------------------------------------------
(* Inputs: what the external commands can print *)

StatusTexts ==
    { <<"{", "Self", "online", "}">>,   \* a status document
      <<"[", "peer", "]">>,             \* valid JSON, not a map, truthy
      <<"{", "}">>, <<"[", "]">>, <<"0">>, <<"false">>, <<"\"", "\"">>, <<"null">>,
      <<"{", "Self">>,                  \* truncated document
      <<>> }                            \* no output at all

LineA     == <<"{", "MESSAGE", "a", "}">>
LineB     == <<"{", "MESSAGE", "b", "_PID", "7", "}">>
LineFull  == <<"{", "__REALTIME_TIMESTAMP", "100", "MESSAGE", "c", "PRIORITY", "3",
               "_SYSTEMD_UNIT", "sshd", "_HOSTNAME", "h1", "_PID", "7", "}">>
LineNoKey == <<"{", "}">>
LineBad   == <<"{", "MESSAGE">>
LineBlank == <<>>
LineNum   == <<"0">>

LineTexts == {LineA, LineB, LineFull, LineNoKey, LineBad, LineBlank, LineNum}
FewLineTexts == {LineA, LineBad, LineNum}
ConcLineTexts == {LineA, LineBad}

Times == {"T1", "T2"}
CmdKinds == {"absent", "nonzero", "ok"}

SeqsUpTo(S, n) == UNION {[1..k -> S] : k \in 0..n}

----------------------------------------------------------------------------
(* The collector's methods as functions of what the commands return *)

get_tailscale_status(kind, stdout) ==
    IF kind = "nonzero"
    THEN [exc |-> "", val |-> None, path |-> "nonzero",
          msg |-> <<"Error getting Tailscale status">>]
    ELSE IF kind = "absent"
    THEN [exc |-> "", val |-> None, path |-> "absent",
          msg |-> <<"Tailscale CLI not found">>]
    ELSE LET r == JsonLoads(stdout)
         IN IF r.exc # ""
            THEN [exc |-> r.exc, val |-> None, path |-> "malformed", msg |-> <<>>]
            ELSE [exc |-> "", val |-> r.val, path |-> "ok", msg |-> <<>>]

(* result.stdout.strip().split('\n'): blank lines at both ends go, and an  *)
(* all-blank output leaves one empty string                                *)
RECURSIVE DropBlankHead(_)
DropBlankHead(ls) ==
    IF ls = <<>> THEN <<>>
    ELSE IF Head(ls) = <<>> THEN DropBlankHead(Tail(ls)) ELSE ls

RECURSIVE DropBlankTail(_)
DropBlankTail(ls) ==
    IF ls = <<>> THEN <<>>
    ELSE IF ls[Len(ls)] = <<>> THEN DropBlankTail(SubSeq(ls, 1, Len(ls) - 1)) ELSE ls

StripSplit(stdout) ==
    LET t == DropBlankTail(DropBlankHead(stdout))
    IN IF t = <<>> THEN << <<>> >> ELSE t

(* the for loop of get_system_logs *)
RECURSIVE ParseLoopBreak(_, _)
ParseLoopBreak(lines, logs) ==
    IF lines = <<>> THEN logs
    ELSE IF Head(lines) = <<>> THEN ParseLoopBreak(Tail(lines), logs)
    ELSE IF JsonLoads(Head(lines)).exc # "" THEN logs
    ELSE ParseLoopBreak(Tail(lines), Append(logs, JsonLoads(Head(lines)).val))

RECURSIVE ParseLoop(_, _)
ParseLoop(lines, logs) ==
    IF lines = <<>> THEN logs
    ELSE IF Head(lines) = <<>> THEN ParseLoop(Tail(lines), logs)
    ELSE IF JsonLoads(Head(lines)).exc # "" THEN ParseLoop(Tail(lines), logs)
    ELSE ParseLoop(Tail(lines), Append(logs, JsonLoads(Head(lines)).val))

get_system_logs_uncaught(kind, stdout) ==
    IF kind = "nonzero"
    THEN [exc |-> "", val |-> <<>>, msg |-> <<"Could not retrieve system logs">>]
    ELSE IF kind = "absent"
    THEN [exc |-> "FileNotFoundError", val |-> <<>>, msg |-> <<>>]
    ELSE [exc |-> "", val |-> ParseLoop(StripSplit(stdout), <<>>), msg |-> <<>>]

get_system_logs(kind, stdout) ==
    IF kind = "nonzero"
    THEN [exc |-> "", val |-> <<>>, msg |-> <<"Could not retrieve system logs">>]
    ELSE IF kind = "absent"
    THEN [exc |-> "", val |-> <<>>, msg |-> <<"journalctl not found">>]
    ELSE [exc |-> "", val |-> ParseLoop(StripSplit(stdout), <<>>), msg |-> <<>>]

NoRecord ==
    [timestamp |-> "", source |-> "", collector_version |-> "",
     status |-> None, events |-> <<>>]

EventOfWrongDefault(log, timestamp) ==
    [timestamp |-> DictGet(log, "__REALTIME_TIMESTAMP", timestamp),
     message   |-> DictGet(log, "MESSAGE", ""),
     priority  |-> DictGet(log, "PRIORITY", "6"),
     unit      |-> DictGet(log, "_SYSTEMD_UNIT", "tailscaled"),
     hostname  |-> DictGet(log, "_HOSTNAME", "tailscaled")]

EventOf(log, timestamp) ==
    [timestamp |-> DictGet(log, "__REALTIME_TIMESTAMP", timestamp),
     message   |-> DictGet(log, "MESSAGE", ""),
     priority  |-> DictGet(log, "PRIORITY", "6"),
     unit      |-> DictGet(log, "_SYSTEMD_UNIT", "tailscaled"),
     hostname  |-> DictGet(log, "_HOSTNAME", "unknown")]

format_for_wazuh_reversed(status_data, logs, timestamp) ==
    IF \E i \in 1..Len(logs) : logs[i].kind # "obj"
    THEN [exc |-> "AttributeError", val |-> NoRecord]
    ELSE [exc |-> "",
          val |-> [timestamp |-> timestamp,
                   source |-> "tailscale",
                   collector_version |-> "1.0",
                   status |-> status_data,
                   events |-> [i \in 1..Len(logs) |->
                                  EventOf(logs[Len(logs) + 1 - i], timestamp)]]]

format_for_wazuh(status_data, logs, timestamp) ==
    IF \E i \in 1..Len(logs) : logs[i].kind # "obj"
    THEN [exc |-> "AttributeError", val |-> NoRecord]
    ELSE [exc |-> "",
          val |-> [timestamp |-> timestamp,
                   source |-> "tailscale",
                   collector_version |-> "1.0",
                   status |-> status_data,
                   events |-> [i \in 1..Len(logs) |-> EventOf(logs[i], timestamp)]]]

(* json.dump(logs, f): the sequence of fp.write() calls it makes *)
EventChunk(e) ==
    [k |-> "event", d |-> <<e.timestamp, e.message, e.priority, e.unit, e.hostname>>]

JsonDumpChunks(rec) ==
    <<[k |-> "head",
       d |-> <<rec.timestamp, rec.source, rec.collector_version>> \o JsonDumps(rec.status)]>>
    \o [i \in 1..Len(rec.events) |-> EventChunk(rec.events[i])]
    \o <<[k |-> "tail", d |-> <<>>]>>

NewlineChunk == [k |-> "nl", d |-> <<>>]

----------------------------------------------------------------------------
(* State *)

Init ==
    /\ pc = [p \in Procs |-> "idle"]
    /\ env = [p \in Procs |-> [tailscale |-> "ok", journalctl |-> "ok"]]
    /\ got = [p \in Procs |-> "pending"]
    /\ status = [p \in Procs |-> None]
    /\ journalOut = [p \in Procs |-> <<>>]
    /\ system_logs = [p \in Procs |-> <<>>]
    /\ formatted = [p \in Procs |-> NoRecord]
    /\ todo = [p \in Procs |-> <<>>]
    /\ pending = [p \in Procs |-> <<>>]
    /\ called = [p \in Procs |-> {}]
    /\ saveResult = [p \in Procs |-> "none"]
    /\ exc = [p \in Procs |-> ""]
    /\ exitCode = [p \in Procs |-> -1]
    /\ diag = [p \in Procs |-> <<>>]
    /\ fileAtStart = [p \in Procs |-> <<>>]
    /\ file = <<>>
    /\ owner = <<>>
    /\ fileExists = FALSE
    /\ dirExists = FALSE

Finished(p) == pc[p] \in {"done", "crashed"}
Running(p) == pc[p] \notin {"idle", "done", "crashed"}

fileVars == <<file, owner, fileExists>>
saveVars == <<todo, pending, saveResult>>
dataVars == <<got, status, journalOut, system_logs, formatted>>

(* an unhandled exception leaves main(): traceback, exit status 1 *)
Raise(p, e) ==
    /\ pc' = [pc EXCEPT ![p] = "crashed"]
    /\ exc' = [exc EXCEPT ![p] = e]
    /\ exitCode' = [exitCode EXCEPT ![p] = 1]

(* main() returns: exit status 0 *)
Return(p) ==
    /\ pc' = [pc EXCEPT ![p] = "done"]
    /\ exitCode' = [exitCode EXCEPT ![p] = 0]
    /\ exc' = exc

Say(p, msg) == diag' = [diag EXCEPT ![p] = diag[p] \o msg]

(* main() up to collector.collect(): TailscaleLogCollector.__init__ makes  *)
(* the output directory; collect() prints its banner.  With alone = TRUE   *)
(* an invocation starts only when no other one is running.                 *)
main(p, alone) ==
    /\ pc[p] = "idle"
    /\ alone => \A q \in Procs : ~Running(q)
    /\ \E ts \in CmdKinds, jc \in CmdKinds :
           env' = [env EXCEPT ![p] = [tailscale |-> ts, journalctl |-> jc]]
    /\ fileAtStart' = [fileAtStart EXCEPT ![p] = file]
    /\ \E denied \in BOOLEAN :
           IF denied /\ ~dirExists
           THEN /\ Raise(p, "PermissionError")
                /\ UNCHANGED <<dirExists, diag>>
           ELSE /\ dirExists' = TRUE
                /\ pc' = [pc EXCEPT ![p] = "status"]
                /\ Say(p, <<"Collecting Tailscale logs...">>)
                /\ UNCHANGED <<exc, exitCode>>
    /\ UNCHANGED <<dataVars, saveVars, called, fileVars>>

(* collect(): status = self.get_tailscale_status() *)
collect_status(p) ==
    /\ pc[p] = "status"
    /\ \E stdout \in StatusTexts :
         LET r == get_tailscale_status(env[p].tailscale, stdout)
         IN /\ got' = [got EXCEPT ![p] = r.path]
            /\ status' = [status EXCEPT ![p] = r.val]
            /\ Say(p, r.msg)
            /\ IF r.exc # ""
               THEN Raise(p, r.exc)
               ELSE /\ pc' = [pc EXCEPT ![p] = "gate"]
                    /\ UNCHANGED <<exc, exitCode>>
    /\ UNCHANGED <<env, journalOut, system_logs, formatted, saveVars, called,
                   fileAtStart, fileVars, dirExists>>

(* collect(): if status: ... else: print("Failed to collect status.") *)
collect_gate_always(p) ==
    /\ pc[p] = "gate"
    /\ pc' = [pc EXCEPT ![p] = "logs"]
    /\ UNCHANGED <<exc, exitCode, diag>>
    /\ UNCHANGED <<env, dataVars, saveVars, called, fileAtStart, fileVars, dirExists>>

collect_gate(p) ==
    /\ pc[p] = "gate"
    /\ IF Truthy(status[p])
       THEN /\ pc' = [pc EXCEPT ![p] = "logs"]
            /\ UNCHANGED <<exc, exitCode, diag>>
       ELSE /\ Say(p, <<"Failed to collect status.">>)
            /\ Return(p)
    /\ UNCHANGED <<env, dataVars, saveVars, called, fileAtStart, fileVars, dirExists>>

(* collect(): system_logs = self.get_system_logs(lines=50) *)
collect_logs(p, Lines, n) ==
    /\ pc[p] = "logs"
    /\ called' = [called EXCEPT ![p] = called[p] \cup {"get_system_logs"}]
    /\ \E stdout \in SeqsUpTo(Lines, n) :
         LET r == get_system_logs(env[p].journalctl, stdout)
         IN /\ env[p].journalctl # "ok" => stdout = <<>>
            /\ journalOut' = [journalOut EXCEPT ![p] = stdout]
            /\ system_logs' = [system_logs EXCEPT ![p] = r.val]
            /\ Say(p, r.msg)
            /\ IF r.exc # ""
               THEN Raise(p, r.exc)
               ELSE /\ pc' = [pc EXCEPT ![p] = "format"]
                    /\ UNCHANGED <<exc, exitCode>>
    /\ UNCHANGED <<env, got, status, formatted, saveVars,
                   fileAtStart, fileVars, dirExists>>

(* collect(): formatted_logs = self.format_for_wazuh(status, system_logs) *)
collect_format(p) ==
    /\ pc[p] = "format"
    /\ called' = [called EXCEPT ![p] = called[p] \cup {"format_for_wazuh"}]
    /\ \E now \in Times :
         LET r == format_for_wazuh(status[p], system_logs[p], now)
         IN /\ formatted' = [formatted EXCEPT ![p] = r.val]
            /\ IF r.exc # ""
               THEN Raise(p, r.exc)
               ELSE /\ pc' = [pc EXCEPT ![p] = "save"]
                    /\ UNCHANGED <<exc, exitCode>>
    /\ UNCHANGED <<env, got, status, journalOut, system_logs, saveVars, diag,
                   fileAtStart, fileVars, dirExists>>

(* f.write(chunk) on the text file object: the chunk joins the pending     *)
(* chunks, which go to the file in one O_APPEND write once they reach the  *)
(* chunk size                                                              *)
TextWrite(p, chunk) ==
    LET buf == Append(pending[p], chunk)
    IN IF Len(buf) >= ChunkSize
       THEN /\ file' = file \o buf
            /\ owner' = owner \o [i \in 1..Len(buf) |-> p]
            /\ pending' = [pending EXCEPT ![p] = <<>>]
       ELSE /\ pending' = [pending EXCEPT ![p] = buf]
            /\ UNCHANGED <<file, owner>>

(* save_logs(): open(self.log_file, 'a') *)
save_open_truncate(p) ==
    /\ pc[p] = "save"
    /\ called' = [called EXCEPT ![p] = called[p] \cup {"save_logs"}]
    /\ \E denied \in BOOLEAN :
         IF denied
         THEN /\ saveResult' = [saveResult EXCEPT ![p] = "denied"]
              /\ Say(p, <<"Error: Permission denied">>)
              /\ Return(p)
              /\ UNCHANGED <<todo, pending, fileVars>>
         ELSE /\ fileExists' = TRUE
              /\ file' = <<>>
              /\ owner' = <<>>
              /\ todo' = [todo EXCEPT ![p] = JsonDumpChunks(formatted[p])]
              /\ pending' = [pending EXCEPT ![p] = <<>>]
              /\ pc' = [pc EXCEPT ![p] = "dump"]
              /\ UNCHANGED <<saveResult, exc, exitCode, diag>>
    /\ UNCHANGED <<env, dataVars, fileAtStart, dirExists>>

save_open(p) ==
    /\ pc[p] = "save"
    /\ called' = [called EXCEPT ![p] = called[p] \cup {"save_logs"}]
    /\ \E denied \in BOOLEAN :
         IF denied
         THEN /\ saveResult' = [saveResult EXCEPT ![p] = "denied"]
              /\ Say(p, <<"Error: Permission denied">>)
              /\ Return(p)
              /\ UNCHANGED <<todo, pending, fileVars>>
         ELSE /\ fileExists' = TRUE
              /\ todo' = [todo EXCEPT ![p] = JsonDumpChunks(formatted[p])]
              /\ pending' = [pending EXCEPT ![p] = <<>>]
              /\ pc' = [pc EXCEPT ![p] = "dump"]
              /\ UNCHANGED <<file, owner, saveResult, exc, exitCode, diag>>
    /\ UNCHANGED <<env, dataVars, fileAtStart, dirExists>>

(* save_logs(): json.dump(logs, f), one fp.write(chunk) per step *)
save_dump(p) ==
    /\ pc[p] = "dump"
    /\ todo[p] # <<>>
    /\ TextWrite(p, Head(todo[p]))
    /\ todo' = [todo EXCEPT ![p] = Tail(todo[p])]
    /\ pc' = [pc EXCEPT ![p] = IF Tail(todo[p]) = <<>> THEN "newline" ELSE "dump"]
    /\ UNCHANGED <<env, dataVars, called, saveResult, exc, exitCode, diag,
                   fileAtStart, fileExists, dirExists>>

(* save_logs(): f.write('\n') *)
save_newline(p) ==
    /\ pc[p] = "newline"
    /\ TextWrite(p, NewlineChunk)
    /\ pc' = [pc EXCEPT ![p] = "close"]
    /\ UNCHANGED <<env, dataVars, called, todo, saveResult, exc, exitCode, diag,
                   fileAtStart, fileExists, dirExists>>

(* save_logs(): leaving the with block closes f, which flushes what is     *)
(* pending; then the print and the return, and collect() and main() return *)
save_close(p) ==
    /\ pc[p] = "close"
    /\ file' = file \o pending[p]
    /\ owner' = owner \o [i \in 1..Len(pending[p]) |-> p]
    /\ pending' = [pending EXCEPT ![p] = <<>>]
    /\ saveResult' = [saveResult EXCEPT ![p] = "ok"]
    /\ Say(p, <<"Log appended to: tailscale.log">>)
    /\ Return(p)
    /\ UNCHANGED <<env, dataVars, called, todo, fileAtStart, fileExists, dirExists>>

Step(p, alone, Lines, n) ==
    \/ main(p, alone)
    \/ collect_status(p)
    \/ collect_gate(p)
    \/ collect_logs(p, Lines, n)
    \/ collect_format(p)
    \/ save_open(p)
    \/ save_dump(p)
    \/ save_newline(p)
    \/ save_close(p)

(* invocations one after another *)
Next == \E p \in Procs : Step(p, TRUE, FewLineTexts, SeqLines)
Spec == Init /\ [][Next]_vars

(* invocations started by a scheduler, overlapping *)
NextConc == \E p \in Procs : Step(p, FALSE, ConcLineTexts, SeqLines)
SpecConc == Init /\ [][NextConc]_vars

----------------------------------------------------------------------------
(* get_system_logs and format_for_wazuh applied to arbitrary arguments *)

StatusDocs == {JsonLoads(t).val : t \in {u \in StatusTexts : JsonValid(u)}}

InitFn ==
    /\ pc = [p \in Procs |-> IF p = "p1" THEN "fn_logs" ELSE "idle"]
    /\ \E jc \in CmdKinds :
         env = [p \in Procs |-> [tailscale |-> "ok",
                                 journalctl |-> IF p = "p1" THEN jc ELSE "ok"]]
    /\ got = [p \in Procs |-> "pending"]
    /\ \E doc \in StatusDocs :
         status = [p \in Procs |-> IF p = "p1" THEN doc ELSE None]
    /\ \E stdout \in SeqsUpTo(LineTexts, MaxLines) :
         /\ env["p1"].journalctl # "ok" => stdout = <<>>
         /\ journalOut = [p \in Procs |-> IF p = "p1" THEN stdout ELSE <<>>]
    /\ system_logs = [p \in Procs |-> <<>>]
    /\ formatted = [p \in Procs |-> NoRecord]
    /\ todo = [p \in Procs |-> <<>>]
    /\ pending = [p \in Procs |-> <<>>]
    /\ called = [p \in Procs |-> {}]
    /\ saveResult = [p \in Procs |-> "none"]
    /\ exc = [p \in Procs |-> ""]
    /\ exitCode = [p \in Procs |-> -1]
    /\ diag = [p \in Procs |-> <<>>]
    /\ fileAtStart = [p \in Procs |-> <<>>]
    /\ file = <<>>
    /\ owner = <<>>
    /\ fileExists = FALSE
    /\ dirExists = TRUE

apply_get_system_logs(p) ==
    /\ pc[p] = "fn_logs"
    /\ LET r == get_system_logs(env[p].journalctl, journalOut[p])
       IN /\ system_logs' = [system_logs EXCEPT ![p] = r.val]
          /\ Say(p, r.msg)
          /\ exc' = [exc EXCEPT ![p] = r.exc]
    /\ called' = [called EXCEPT ![p] = called[p] \cup {"get_system_logs"}]
    /\ pc' = [pc EXCEPT ![p] = "fn_format"]
    /\ UNCHANGED <<env, got, status, journalOut, formatted, saveVars, exitCode,
                   fileAtStart, fileVars, dirExists>>

apply_format_for_wazuh(p) ==
    /\ pc[p] = "fn_format"
    /\ \E now \in Times :
         LET r == format_for_wazuh(status[p], system_logs[p], now)
         IN /\ formatted' = [formatted EXCEPT ![p] = r.val]
            /\ exc' = [exc EXCEPT ![p] = r.exc]
    /\ called' = [called EXCEPT ![p] = called[p] \cup {"format_for_wazuh"}]
    /\ pc' = [pc EXCEPT ![p] = "fn_done"]
    /\ UNCHANGED <<env, got, status, journalOut, system_logs, saveVars, exitCode,
                   diag, fileAtStart, fileVars, dirExists>>

NextFn ==
    \/ apply_get_system_logs("p1")
    \/ apply_format_for_wazuh("p1")
SpecFn == InitFn /\ [][NextFn]_vars

----------------------------------------------------------------------------
(* Properties *)

IsPrefix(a, b) == Len(a) <= Len(b) /\ SubSeq(b, 1, Len(a)) = a

NumLines(f) == Cardinality({i \in 1..Len(f) : f[i].k = "nl"})

(* f is a sequence of whole lines: head, events, tail, newline, repeated *)
WholeLines(f) ==
    /\ \A i \in 1..Len(f) :
         LET prev == IF i = 1 THEN "nl" ELSE f[i - 1].k
         IN /\ f[i].k = "head" => prev = "nl"
            /\ f[i].k \in {"event", "tail"} => prev \in {"head", "event"}
            /\ f[i].k = "nl" => prev = "tail"
    /\ Len(f) = 0 \/ f[Len(f)].k = "nl"

(* the line save_logs is to add for a record *)
LineOf(rec) == JsonDumpChunks(rec) \o <<NewlineChunk>>

Positions(p) == {i \in 1..Len(owner) : owner[i] = p}

(* the decoded documents Python takes for false *)
FalsyDocs ==
    {JsonLoads(t).val : t \in {<<"{", "}">>, <<"[", "]">>, <<"0">>, <<"false">>,
                               <<"\"", "\"">>, <<"null">>}}

StatusFailures == {"absent", "nonzero", "malformed"}
LogFailures == {"absent", "nonzero"}

(* p takes a step of main(), and main() ends with it *)
Ends(p) == Running(p) /\ Finished(p)'
Moves(p) == pc'[p] # pc[p]

(* C1: when the status command is absent, exits nonzero or prints invalid  *)
(* JSON, the invocation never calls get_system_logs nor save_logs, none of *)
(* its steps touches the target file, and the file at its end is the file  *)
(* at its start.                                                           *)
C1_StatusFailureShortCircuits ==
    [][\A p \in Procs :
          got'[p] \in StatusFailures =>
             /\ "get_system_logs" \notin called'[p]
             /\ "save_logs" \notin called'[p]
             /\ Moves(p) => file' = file /\ fileExists' = fileExists
             /\ Ends(p) => file' = fileAtStart[p]]_vars

C1_Witness ==
    \E p \in Procs :
       /\ Finished(p)
       /\ got[p] = "malformed"
       /\ fileExists /\ file # <<>>
       /\ file = fileAtStart[p]

(* C2 as stated: status obtained and the log command absent or exiting     *)
(* nonzero: the invocation ends having called save_logs and having added   *)
(* exactly one line, the record with the snapshot and no events.           *)
C2_LogFailureAlwaysPersists ==
    [][\A p \in Procs :
          (Ends(p) /\ got'[p] = "ok" /\ env[p].journalctl \in LogFailures) =>
             /\ "save_logs" \in called'[p]
             /\ formatted'[p].status = status[p]
             /\ formatted'[p].events = <<>>
             /\ file' = fileAtStart[p] \o LineOf(formatted'[p])]_vars

(* C2 amended: status obtained and truthy, log command absent or exiting   *)
(* nonzero: save_logs is reached with the record holding the snapshot and  *)
(* no events; when the append succeeds exactly that one line is added, and *)
(* when opening the file is denied nothing is added.                       *)
C2_LogFailureReachesSave ==
    [][\A p \in Procs :
          (Ends(p) /\ got'[p] = "ok" /\ status[p] \notin FalsyDocs
             /\ env[p].journalctl \in LogFailures) =>
             /\ "save_logs" \in called'[p]
             /\ formatted'[p].status = status[p]
             /\ formatted'[p].events = <<>>
             /\ saveResult'[p] \in {"ok", "denied"}
             /\ saveResult'[p] = "ok" =>
                   file' = fileAtStart[p] \o LineOf(formatted'[p])
             /\ saveResult'[p] = "denied" => file' = fileAtStart[p]]_vars

C2_Witness ==
    \E p \in Procs :
       /\ pc[p] = "done"
       /\ got[p] = "ok"
       /\ env[p].journalctl = "absent"
       /\ saveResult[p] = "ok"
       /\ fileAtStart[p] # <<>>
       /\ file = fileAtStart[p] \o LineOf(formatted[p])

(* C3: across invocations run one after another the file only grows at its *)
(* end (the old content is a prefix of the new), a completed save_logs     *)
(* adds exactly one line, and between invocations the file holds one whole *)
(* record line per successful save_logs.                                   *)
C3_AppendOnly ==
    [][/\ IsPrefix(file, file')
       /\ \A p \in Procs :
            (pc[p] = "close" /\ pc'[p] = "done") =>
               /\ NumLines(file') = NumLines(fileAtStart[p]) + 1
               /\ file' = fileAtStart[p] \o LineOf(formatted[p])
       /\ (\A p \in Procs : ~Running(p)') =>
            /\ NumLines(file') = Cardinality({p \in Procs : saveResult'[p] = "ok"})
            /\ WholeLines(file')]_vars

C3_Witness ==
    /\ \A p \in Procs : pc[p] = "done" /\ saveResult[p] = "ok"
    /\ NumLines(file) = 2
    /\ \E p \in Procs : Len(formatted[p].events) >= 1

(* C4: with overlapping invocations, the chunks one invocation wrote lie   *)
(* next to one another in the file: nothing of another invocation comes    *)
(* between the first chunk of a record and its newline.                    *)
C4_RecordsContiguous ==
    \A p \in Procs :
       \A i \in Positions(p), j \in Positions(p) :
          \A m \in i..j : owner[m] = p

(* C5: in every state, a save_logs call in progress included, the file     *)
(* is a sequence of complete record lines each ended by its newline.       *)
C5_NoPartialLine == WholeLines(file)

(* C6: no invocation of main() is ended by an error of the four kinds      *)
(* (tool absent, tool exits nonzero, malformed JSON, permission denied):   *)
(* each ends normally with exit status 0.                                  *)
C6_ErrorsNeverAbort ==
    \A p \in Procs :
       /\ exc[p] \notin {"FileNotFoundError", "CalledProcessError",
                         "JSONDecodeError", "PermissionError"}
       /\ (Finished(p) /\ exc[p] = "") => exitCode[p] = 0

(* the five recognized keys: key of the log document, field of the event,  *)
(* default when the key is absent ("" stands for the record's timestamp)   *)
Recognized ==
    { <<"__REALTIME_TIMESTAMP", "timestamp", "">>,
      <<"MESSAGE", "message", "">>,
      <<"PRIORITY", "priority", "6">>,
      <<"_SYSTEMD_UNIT", "unit", "tailscaled">>,
      <<"_HOSTNAME", "hostname", "unknown">> }

HasKey(log, key) == \E j \in 1..Len(log.body) : j % 2 = 1 /\ log.body[j] = key
ValueAt(log, key, v) ==
    \E j \in 1..Len(log.body) : j % 2 = 1 /\ log.body[j] = key /\ log.body[j + 1] = v

(* event e carries, for each recognized key of log, the value log has *)
CopiedFrom(e, log) ==
    \A r \in Recognized : HasKey(log, r[1]) => ValueAt(log, r[1], e[r[2]])

Applied(p) == pc[p] = "fn_done" /\ exc[p] = ""

(* C7: format_for_wazuh(status, logs) gives one record whose status is the *)
(* status passed in, whose events are as many as the logs, and whose i-th  *)
(* event carries the recognized values of the i-th log.                    *)
C7_OneRecordInOrder ==
    \A p \in Procs :
       Applied(p) =>
          /\ formatted[p].status = status[p]
          /\ Len(formatted[p].events) = Len(system_logs[p])
          /\ \A i \in 1..Len(system_logs[p]) :
                CopiedFrom(formatted[p].events[i], system_logs[p][i])

C7_Witness ==
    \E p \in Procs :
       /\ Applied(p)
       /\ status[p] = JsonLoads(<<"{", "}">>).val
       /\ Len(system_logs[p]) = 3
       /\ formatted[p].events[1].message = "a"
       /\ formatted[p].events[2].message = "c"
       /\ formatted[p].events[3].message = "b"

(* C8: get_system_logs returns the lines of the command's output that      *)
(* parse as JSON, decoded, in the order they were printed; a line that     *)
(* does not parse is left out and the lines after it are still read.       *)
C8_BadLinesSkipped ==
    \A p \in Procs :
       (pc[p] \in {"fn_format", "fn_done"} /\ env[p].journalctl = "ok") =>
          LET good == SelectSeq(journalOut[p], JsonValid)
          IN system_logs[p] = [i \in 1..Len(good) |-> JsonLoads(good[i]).val]

C8_Witness ==
    \E p \in Procs :
       /\ pc[p] = "fn_format"
       /\ journalOut[p] = <<LineA, LineBad, LineFull, LineB>>
       /\ system_logs[p] = <<JsonLoads(LineA).val, JsonLoads(LineFull).val,
                             JsonLoads(LineB).val>>

(* C9: each recognized field of an event is defaulted on its own when the  *)
(* log lacks its key (message "", priority "6", unit "tailscaled",         *)
(* hostname "unknown", timestamp the record's timestamp) and copied when   *)
(* the log has it; an event has the five fields and no other.              *)
C9_FieldDefaults ==
    \A p \in Procs :
       Applied(p) =>
          \A i \in 1..Len(formatted[p].events) :
             LET e == formatted[p].events[i]
                 log == system_logs[p][i]
             IN /\ DOMAIN e = {r[2] : r \in Recognized}
                /\ \A r \in Recognized :
                      IF HasKey(log, r[1])
                      THEN ValueAt(log, r[1], e[r[2]])
                      ELSE e[r[2]] = IF r[2] = "timestamp"
                                     THEN formatted[p].timestamp ELSE r[3]

C9_Witness ==
    \E p \in Procs :
       /\ Applied(p)
       /\ formatted[p].timestamp = "T2"
       /\ Len(formatted[p].events) = 2
       /\ system_logs[p][1] = JsonLoads(LineNoKey).val
       /\ formatted[p].events[1] =
             [timestamp |-> "T2", message |-> "", priority |-> "6",
              unit |-> "tailscaled", hostname |-> "unknown"]
       /\ formatted[p].events[2] =
             [timestamp |-> "100", message |-> "c", priority |-> "3",
              unit |-> "sshd", hostname |-> "h1"]

(* C10: a status command that exits zero and prints {}, [], 0, false, ""   *)
(* or null is treated as a status failure: get_system_logs,                *)
(* format_for_wazuh and save_logs are not called, no record is built, the  *)
(* failure message is printed, and the file is left as it was.             *)
C10_FalsyStatusIsFailure ==
    [][\A p \in Procs :
          (got'[p] = "ok" /\ status'[p] \in FalsyDocs) =>
             /\ called'[p] = {}
             /\ formatted'[p] = NoRecord
             /\ Moves(p) => file' = file /\ fileExists' = fileExists
             /\ Ends(p) =>
                   /\ file' = fileAtStart[p]
                   /\ pc'[p] = "done"
                   /\ diag'[p][Len(diag'[p])] = "Failed to collect status."]_vars

C10_Witness ==
    \E p \in Procs :
       /\ pc[p] = "done"
       /\ got[p] = "ok"
       /\ status[p] = JsonLoads(<<"{", "}">>).val
       /\ file # <<>>
       /\ file = fileAtStart[p]

====
